---- MODULE Spec2Model ----
(***************************************************************************)
(* Model of socket/pseudossl.c: the pseudo-SSL decorator around a base     *)
(* NiceSocket.  The base socket is the environment: every value it returns *)
(* and every byte it delivers is an input chosen with \E.                  *)
(***************************************************************************)
EXTENDS Integers, Sequences, FiniteSets, TLC

VARIABLES
  pc,           \* "new" before nice_pseudossl_socket_new, "open", "closed", "aborted"
  handshaken,   \* PseudoSSLPriv.handshaken
  base_socket,  \* PseudoSSLPriv.base_socket: "base" or NULL
  send_queue,   \* PseudoSSLPriv.send_queue: sequence of struct to_be_sent
  heap,         \* number of struct to_be_sent (with their buf) allocated and not freed
  n_free,       \* number of nice_socket_free calls made on the base socket
  n_client,     \* number of sends of SSL_CLIENT_HANDSHAKE made on the base socket
  submitted,    \* history: payloads submitted through send while not handshaken
  delivered,    \* history: payloads handed to nice_socket_send when the queue is flushed
  destinations, \* history: message->to of each payload in submitted (NULL when none)
  recv_failed,  \* history: the base socket failed a receive made while not handshaken
  call          \* history: the most recent operation, its arguments, result and base calls

vars == << pc, handshaken, base_socket, send_queue, heap, n_free, n_client,
           submitted, delivered, destinations, recv_failed, call >>

----------------------------------------------------------------------------
(* Bounds of the model *)

MaxQueue == 3

----------------------------------------------------------------------------
(* Constants of the program *)

NULL == "NULL"
TRUE_ == 1
FALSE_ == 0

SSL_SERVER_HANDSHAKE ==
  << 22, 3, 1, 0, 74, 2, 0, 0, 70, 3, 1, 66,
     133, 69, 167, 39, 169, 93, 160, 179, 197, 231, 83, 218,
     72, 43, 63, 198, 90, 202, 137, 193, 88, 82, 161, 120,
     60, 91, 23, 70, 0, 133, 63, 32, 14, 211, 6, 114,
     91, 91, 27, 95, 21, 172, 19, 249, 136, 83, 157, 155,
     232, 61, 123, 12, 48, 50, 110, 56, 77, 162, 117, 87,
     65, 108, 52, 92, 0, 4, 0 >>

SSL_CLIENT_HANDSHAKE ==
  << 128, 70, 1, 3, 1, 0, 45, 0, 0, 0, 16, 1,
     0, 128, 3, 0, 128, 7, 0, 192, 6, 0, 64, 2,
     0, 128, 4, 0, 128, 0, 0, 4, 0, 254, 255, 0,
     0, 10, 0, 254, 254, 0, 0, 9, 0, 0, 100, 0,
     0, 98, 0, 0, 3, 0, 0, 6, 31, 23, 12, 166,
     47, 0, 120, 252, 70, 85, 46, 177, 131, 57, 241, 234 >>
\* Mutant: the length copied is the buffer's size, without MIN.
MinTakesSecond(a, b) == b

Min(a, b) == IF a < b THEN a ELSE b

----------------------------------------------------------------------------
(* Inputs: addresses, output messages, and what the base socket can answer *)

\* A NiceAddress value; ZeroAddress is the all-zero struct g_slice_new0 leaves.
ZeroAddress == "0.0.0.0:0"
PeerAddress == "192.0.2.1:3478"

\* A GOutputVector; null marks buffer == NULL (the terminator of an array
\* whose n_buffers is negative).
Vec(bytes) == [buffer |-> bytes, size |-> Len(bytes), null |-> FALSE]
NullVec == [buffer |-> << >>, size |-> 0, null |-> TRUE]

\* NiceOutputMessage values the caller submits.
MsgScattered == [buffers |-> << Vec(<<1>>), Vec(<<2, 3>>) >>, n_buffers |-> 2,
                 length |-> 3, to |-> NULL]
MsgTerminated == [buffers |-> << Vec(<<4>>), NullVec >>, n_buffers |-> -1,
                  length |-> 1, to |-> PeerAddress]
MsgOverlong == [buffers |-> << Vec(<<5>>), Vec(<<6, 7>>) >>, n_buffers |-> 2,
                length |-> 2, to |-> PeerAddress]
MsgShort == [buffers |-> << Vec(<<8>>) >>, n_buffers |-> 1,
             length |-> 2, to |-> NULL]

Messages == { MsgScattered, MsgTerminated, MsgOverlong, MsgShort }

\* The batches a send call submits: none, one, or two messages.
Batches ==
  { << >> } \cup { << m >> : m \in Messages }
  \cup { << MsgScattered, MsgTerminated >>, << MsgOverlong, MsgScattered >>,
         << MsgTerminated, MsgShort >> }

\* The number of input messages a receive call offers.
RecvCounts == { 1, 2 }

\* What the base socket's receive can write into the 79-byte local buffer when
\* it reports one message: the pattern, a record of the right length with one
\* wrong byte, and records shorter than the pattern.
WrongRecord == [SSL_SERVER_HANDSHAKE EXCEPT ![Len(SSL_SERVER_HANDSHAKE)] = 1]
ShortRecord == SubSeq(SSL_SERVER_HANDSHAKE, 1, 40)
ShortWrongRecord == << 22, 3, 0 >>
Records == { SSL_SERVER_HANDSHAKE, WrongRecord, ShortRecord, ShortWrongRecord }

\* guint8 data[sizeof(SSL_SERVER_HANDSHAKE)] is not initialised: the bytes it
\* holds before the receive are whatever the stack held.
StackImages == { [i \in 1..Len(SSL_SERVER_HANDSHAKE) |-> 0], SSL_SERVER_HANDSHAKE }

\* Negative results of the base socket, and application records it delivers.
BaseErrors == { -1, -2 }
AppRecords == { << 9 >>, << 10, 11 >> }

\* Results of the base socket's receive into the local buffer (one message asked).
\* On a match the queue of qlen entries is flushed; fail is the index of the
\* flushed send the base socket fails (0: none).
LocalRecvInputs(qlen) ==
  { [ret |-> r, out |-> << >>, stack |-> s, fail |-> 0] :
      r \in BaseErrors \cup {0}, s \in StackImages }
  \cup
  { [ret |-> 1, out |-> << rec >>, stack |-> s, fail |-> f] :
      rec \in Records, s \in StackImages, f \in 0..qlen }

\* Results of the base socket's receive into the caller's n messages.
CallerRecvInputs(n) ==
  { [ret |-> r, out |-> << >>, stack |-> << >>, fail |-> 0] : r \in BaseErrors \cup {0} }
  \cup
  UNION { { [ret |-> k, out |-> o, stack |-> << >>, fail |-> 0] :
              o \in [1..k -> AppRecords] } : k \in 1..n }

\* Results of the base socket's send of n messages.
SendMessagesRets(n) == BaseErrors \cup (0..n)

----------------------------------------------------------------------------
(* Calls made on the base socket *)

SendCall(to, len, buf, ret) ==
  [fn |-> "nice_socket_send", to |-> to, len |-> len, buf |-> buf, ret |-> ret]
SendMessagesCall(messages, n_messages, ret) ==
  [fn |-> "nice_socket_send_messages", messages |-> messages, n |-> n_messages,
   ret |-> ret]
RecvMessagesCall(into, n_recv_messages, ret, out) ==
  [fn |-> "nice_socket_recv_messages", into |-> into, n |-> n_recv_messages,
   ret |-> ret, out |-> out]
FreeCall == [fn |-> "nice_socket_free"]

IsClientHandshakeSend(c) ==
  c.fn = "nice_socket_send" /\ c.buf = SSL_CLIENT_HANDSHAKE
IsSend(c) == c.fn \in { "nice_socket_send", "nice_socket_send_messages" }

NumClientSends(calls) ==
  Cardinality({ i \in 1..Len(calls) : IsClientHandshakeSend(calls[i]) })
NumFrees(calls) ==
  Cardinality({ i \in 1..Len(calls) : calls[i].fn = "nice_socket_free" })
FailedRecv(calls) ==
  \E i \in 1..Len(calls) :
    calls[i].fn = "nice_socket_recv_messages" /\ calls[i].ret < 0
NumSends(calls) ==
  Cardinality({ i \in 1..Len(calls) : IsSend(calls[i]) })

RECURSIVE SentBufs(_)
SentBufs(calls) ==
  IF calls = << >> THEN << >>
  ELSE (IF Head(calls).fn = "nice_socket_send" THEN << Head(calls).buf >> ELSE << >>)
       \o SentBufs(Tail(calls))

----------------------------------------------------------------------------
(* add_to_be_sent: compaction of one message, and queueing of a batch *)
\* Mutant: the copy loop stops one buffer early.
LoopContinuesSkipsLast(message, j) ==
  \/ message.n_buffers >= 0 /\ j + 1 < message.n_buffers
  \/ message.n_buffers < 0 /\ ~message.buffers[j + 1].null

\* The condition of the copy loop over message->buffers, at 0-based index j.
LoopContinues(message, j) ==
  \/ message.n_buffers >= 0 /\ j < message.n_buffers
  \/ message.n_buffers < 0 /\ ~message.buffers[j + 1].null

\* The copy loop: buf is what has been written so far, so offset = Len(buf).
RECURSIVE CompactFrom(_, _, _)
CompactFrom(message, j, buf) ==
  IF LoopContinues(message, j)
  THEN LET buffer == message.buffers[j + 1]
           offset == Len(buf)
           len    == Min(message.length - offset, buffer.size)
       IN  CompactFrom(message, j + 1, buf \o SubSeq(buffer.buffer, 1, len))
  ELSE buf

\* The struct to_be_sent built for one message. g_slice_new0 zeroes the
\* struct, so `to` stays the zero address when message->to is NULL.
NewToBeSent(message) ==
  [buf    |-> CompactFrom(message, 0, << >>),
   length |-> message.length,
   to     |-> IF message.to # NULL THEN message.to ELSE ZeroAddress]

\* The loop over the messages from 1-based index i. The entry is pushed before
\* it is filled; g_assert_cmpuint aborts the process when offset # length.
RECURSIVE AddFrom(_, _, _)
AddFrom(queue, messages, i) ==
  IF i > Len(messages)
  THEN [queue |-> queue, aborted |-> FALSE]
  ELSE LET tbs    == NewToBeSent(messages[i])
           pushed == Append(queue, tbs)
       IN  IF Len(tbs.buf) = messages[i].length
           THEN AddFrom(pushed, messages, i + 1)
           ELSE [queue |-> pushed, aborted |-> TRUE]

add_to_be_sent(queue, messages) == AddFrom(queue, messages, 1)

----------------------------------------------------------------------------
(* The result of one operation: what it returns, the store it leaves, the    *)
(* calls it made on the base socket, and the entries it allocated and freed  *)

Result(ret, aborted, h, b, q, calls, allocs, frees, out) ==
  [ret |-> ret, aborted |-> aborted, handshaken |-> h, base_socket |-> b,
   send_queue |-> q, calls |-> calls, allocs |-> allocs, frees |-> frees,
   out |-> out]

----------------------------------------------------------------------------
(* socket_send_messages *)
\* Mutant: the fast path reports every message as sent unless the base fails.
SendHandshakenCountsAll(b, q, messages, base_ret) ==
  IF b = NULL
  THEN Result(FALSE_, FALSE, TRUE, b, q, << >>, 0, 0, << >>)
  ELSE Result(IF base_ret < 0 THEN base_ret ELSE Len(messages), FALSE, TRUE, b, q,
              << SendMessagesCall(messages, Len(messages), base_ret) >>, 0, 0, << >>)

\* The fast path: the handshake is complete.
SendHandshaken(b, q, messages, base_ret) ==
  IF b = NULL
  THEN Result(FALSE_, FALSE, TRUE, b, q, << >>, 0, 0, << >>)
  ELSE Result(base_ret, FALSE, TRUE, b, q,
              << SendMessagesCall(messages, Len(messages), base_ret) >>, 0, 0, << >>)
\* Mutant: the messages are queued and also sent at once.
SendNotHandshakenAlsoSends(b, q, messages) ==
  LET added == add_to_be_sent(q, messages)
  IN  Result(TRUE_, added.aborted, FALSE, b, added.queue,
             IF b # NULL THEN << SendMessagesCall(messages, Len(messages), Len(messages)) >>
             ELSE << >>,
             Len(added.queue) - Len(q), 0, << >>)
\* Mutant: the number of messages queued is returned.
SendNotHandshakenReturnsCount(b, q, messages) ==
  LET added == add_to_be_sent(q, messages)
  IN  Result(Len(messages), added.aborted, FALSE, b, added.queue, << >>,
             Len(added.queue) - Len(q), 0, << >>)

\* The handshake is not complete: queue the messages and return TRUE.
SendNotHandshaken(b, q, messages) ==
  LET added == add_to_be_sent(q, messages)
  IN  Result(TRUE_, added.aborted, FALSE, b, added.queue, << >>,
             Len(added.queue) - Len(q), 0, << >>)
\* Mutant: a send without a base socket fails, whatever the handshake state.
SendResultChecksBase(h, b, q, messages, base_ret) ==
  IF b = NULL
  THEN Result(FALSE_, FALSE, h, b, q, << >>, 0, 0, << >>)
  ELSE IF h
  THEN SendHandshaken(b, q, messages, base_ret)
  ELSE SendNotHandshaken(b, q, messages)

\* Result of socket_send_messages in the state (h, b, q) for `messages`, when
\* the base socket would answer base_ret.
SendResult(h, b, q, messages, base_ret) ==
  IF h
  THEN SendHandshaken(b, q, messages, base_ret)
  ELSE SendNotHandshaken(b, q, messages)

----------------------------------------------------------------------------
(* socket_recv_messages *)

\* sizeof (data): the size of the local buffer, which the receive never changes.
LocalBufSize == Len(SSL_SERVER_HANDSHAKE)
\* Mutant: ret starts at 0.
RecvInitRetZero == FALSE_

\* The initial value of ret, returned when there is no base socket.
RecvInitRet == -1

\* data after the base socket wrote `record` at its start.
DataAfter(stack, record) ==
  record \o SubSeq(stack, Len(record) + 1, Len(stack))
\* Mutant: the record is compared with the client pattern.
HandshakeValidClientPattern(ret, size, data) ==
  /\ ret = 1
  /\ size = Len(SSL_SERVER_HANDSHAKE)
  /\ data = SSL_CLIENT_HANDSHAKE

\* The condition that recognises the server handshake.
HandshakeValid(ret, size, data) ==
  /\ ret = 1
  /\ size = Len(SSL_SERVER_HANDSHAKE)
  /\ data = SSL_SERVER_HANDSHAKE

\* What the i-th nice_socket_send of a flush answers: its length, or -1 for
\* the one the base socket fails.
FlushRet(tbs, i, fail) == IF i = fail THEN -1 ELSE tbs.length

\* The loop that pops the head of the queue until it is empty.
RECURSIVE FlushFrom(_, _, _, _)
FlushFrom(queue, i, fail, calls) ==
  IF queue = << >>
  THEN calls
  ELSE LET tbs == Head(queue)
       IN  FlushFrom(Tail(queue), i + 1, fail,
             Append(calls, SendCall(tbs.to, tbs.length, tbs.buf, FlushRet(tbs, i, fail))))
\* Mutant: the flush pops from the tail (g_queue_pop_tail), so newest first.
RECURSIVE ReverseSeq(_)
ReverseSeq(q) == IF q = << >> THEN << >> ELSE Append(ReverseSeq(Tail(q)), Head(q))
FlushQueueFromTail(queue, fail) == FlushFrom(ReverseSeq(queue), 1, fail, << >>)

FlushQueue(queue, fail) == FlushFrom(queue, 1, fail, << >>)
\* Mutant: a failure of the base socket resets the handshake.
RecvHandshakenResetsOnError(b, q, n_recv_messages, in) ==
  IF b # NULL
  THEN Result(in.ret, FALSE, in.ret >= 0, b, q,
              << RecvMessagesCall("recv_messages", n_recv_messages, in.ret, in.out) >>,
              0, 0, in.out)
  ELSE Result(0, FALSE, TRUE, b, q, << >>, 0, 0, << >>)

\* Mutant: a failure of the base socket frees it.
RecvHandshakenFreesOnError(b, q, n_recv_messages, in) ==
  IF b # NULL
  THEN Result(in.ret, FALSE, TRUE, IF in.ret < 0 THEN NULL ELSE b, q,
              << RecvMessagesCall("recv_messages", n_recv_messages, in.ret, in.out) >>
              \o (IF in.ret < 0 THEN << FreeCall >> ELSE << >>),
              0, 0, in.out)
  ELSE Result(0, FALSE, TRUE, b, q, << >>, 0, 0, << >>)

\* The fast path: pass straight through to the base socket, if there is one.
RecvHandshaken(b, q, n_recv_messages, in) ==
  IF b # NULL
  THEN Result(in.ret, FALSE, TRUE, b, q,
              << RecvMessagesCall("recv_messages", n_recv_messages, in.ret, in.out) >>,
              0, 0, in.out)
  ELSE Result(0, FALSE, TRUE, b, q, << >>, 0, 0, << >>)
\* Mutant: a negative result of the base socket is handled as a mismatch.
OnNoRecordFreesOnError(ret, b, q, recv) ==
  IF ret < 0
  THEN Result(ret, FALSE, FALSE, NULL, q,
              recv \o (IF b # NULL THEN << FreeCall >> ELSE << >>), 0, 0, << >>)
  ELSE Result(ret, FALSE, FALSE, b, q, recv, 0, 0, << >>)

\* ret <= 0: return it. recv is the call already made on the base socket.
OnNoRecord(ret, b, q, recv) ==
  Result(ret, FALSE, FALSE, b, q, recv, 0, 0, << >>)
\* Mutant: the flush reads the entries (g_queue_peek_nth) and leaves them queued.
OnMatchLeavesQueue(b, q, recv, fail) ==
  Result(0, FALSE, TRUE, b, q, recv \o FlushQueue(q, fail), 0, 0, << >>)

\* The server handshake was recognised: flush the queue and return 0.
OnMatch(b, q, recv, fail) ==
  Result(0, FALSE, TRUE, b, << >>, recv \o FlushQueue(q, fail), 0, Len(q), << >>)
\* Mutant: the base socket is freed but the pointer is not cleared.
OnMismatchKeepsPointer(b, q, recv) ==
  Result(-1, FALSE, FALSE, b, q,
         recv \o (IF b # NULL THEN << FreeCall >> ELSE << >>), 0, 0, << >>)

\* Anything else: free the base socket and return -1.
OnMismatch(b, q, recv) ==
  Result(-1, FALSE, FALSE, NULL, q,
         recv \o (IF b # NULL THEN << FreeCall >> ELSE << >>), 0, 0, << >>)

\* The handshake is not complete: receive into the local buffer and compare.
RecvNotHandshaken(b, q, in) ==
  LET ret  == IF b # NULL THEN in.ret ELSE RecvInitRet
      recv == IF b # NULL
              THEN << RecvMessagesCall("local_recv_message", 1, in.ret, in.out) >>
              ELSE << >>
      data == IF b # NULL /\ in.ret > 0
              THEN DataAfter(in.stack, in.out[1])
              ELSE in.stack
  IN  IF ret <= 0
      THEN OnNoRecord(ret, b, q, recv)
      ELSE IF HandshakeValid(ret, LocalBufSize, data)
      THEN OnMatch(b, q, recv, in.fail)
      ELSE OnMismatch(b, q, recv)

\* Result of socket_recv_messages in the state (h, b, q), when the base socket
\* would answer `in`.
RecvResult(h, b, q, n_recv_messages, in) ==
  IF h
  THEN RecvHandshaken(b, q, n_recv_messages, in)
  ELSE RecvNotHandshaken(b, q, in)

----------------------------------------------------------------------------
(* socket_close and nice_pseudossl_socket_new *)
\* Mutant: close frees the base socket without testing the pointer.
CloseResultFreesAlways(h, b, q) ==
  Result(0, FALSE, h, b, << >>, << FreeCall >>, 0, Len(q), << >>)

CloseResult(h, b, q) ==
  Result(0, FALSE, h, b, << >>, IF b # NULL THEN << FreeCall >> ELSE << >>,
         0, Len(q), << >>)
\* Mutant: the constructor sends the server pattern.
NewResultSendsServerPattern(base_socket_arg, base_ret) ==
  Result(0, FALSE, FALSE, base_socket_arg, << >>,
         << SendCall(NULL, Len(SSL_SERVER_HANDSHAKE), SSL_SERVER_HANDSHAKE, base_ret) >>,
         0, 0, << >>)

NewResult(base_socket_arg, base_ret) ==
  Result(0, FALSE, FALSE, base_socket_arg, << >>,
         << SendCall(NULL, Len(SSL_CLIENT_HANDSHAKE), SSL_CLIENT_HANDSHAKE, base_ret) >>,
         0, 0, << >>)

----------------------------------------------------------------------------
(* The logical payload of a message, as the caller submitted it *)

RECURSIVE Concat(_)
Concat(ranges) ==
  IF ranges = << >> THEN << >> ELSE Head(ranges).buffer \o Concat(Tail(ranges))

Ranges(message) ==
  IF message.n_buffers >= 0
  THEN SubSeq(message.buffers, 1, message.n_buffers)
  ELSE SelectSeq(message.buffers, LAMBDA v : ~v.null)

Payload(message) == SubSeq(Concat(Ranges(message)), 1, message.length)

Payloads(messages) == [i \in 1..Len(messages) |-> Payload(messages[i])]

Destinations(messages) == [i \in 1..Len(messages) |-> messages[i].to]

RangesTotal(message) == Len(Concat(Ranges(message)))

----------------------------------------------------------------------------
(* The state machine *)

NoCall == [op |-> "none", messages |-> << >>, n |-> 0, ret |-> 0, returned |-> TRUE,
           calls |-> << >>, out |-> << >>,
           pre |-> [handshaken |-> FALSE, base_socket |-> NULL, send_queue |-> << >>]]

Init ==
  /\ pc = "new"
  /\ handshaken = FALSE
  /\ base_socket = NULL
  /\ send_queue = << >>
  /\ heap = 0
  /\ n_free = 0
  /\ n_client = 0
  /\ submitted = << >>
  /\ delivered = << >>
  /\ destinations = << >>
  /\ recv_failed = FALSE
  /\ call = NoCall

\* The effect of one operation with result res on the store and the history.
Commit(op, messages, n, res) ==
  /\ handshaken' = res.handshaken
  /\ base_socket' = res.base_socket
  /\ send_queue' = res.send_queue
  /\ heap' = heap + res.allocs - res.frees
  /\ n_free' = n_free + NumFrees(res.calls)
  /\ n_client' = n_client + NumClientSends(res.calls)
  /\ recv_failed' = (recv_failed \/ (~handshaken /\ FailedRecv(res.calls)))
  /\ call' = [op |-> op, messages |-> messages, n |-> n, ret |-> res.ret,
              returned |-> ~res.aborted, calls |-> res.calls, out |-> res.out,
              pre |-> [handshaken |-> handshaken, base_socket |-> base_socket,
                       send_queue |-> send_queue]]

nice_pseudossl_socket_new ==
  /\ pc = "new"
  /\ \E base_ret \in { -1, Len(SSL_CLIENT_HANDSHAKE) } :
       Commit("new", << >>, 0, NewResult("base", base_ret))
  /\ pc' = "open"
  /\ UNCHANGED << submitted, delivered, destinations >>

socket_send_messages ==
  /\ pc = "open"
  /\ \E messages \in Batches :
       /\ handshaken \/ Len(send_queue) + Len(messages) <= MaxQueue
       /\ \E base_ret \in (IF handshaken /\ base_socket # NULL
                           THEN SendMessagesRets(Len(messages)) ELSE { 0 }) :
            LET res == SendResult(handshaken, base_socket, send_queue, messages, base_ret)
            IN  /\ Commit("send", messages, Len(messages), res)
                /\ pc' = IF res.aborted THEN "aborted" ELSE "open"
                /\ submitted' = IF handshaken \/ res.aborted THEN submitted
                                ELSE submitted \o Payloads(messages)
                /\ destinations' = IF handshaken \/ res.aborted THEN destinations
                                   ELSE destinations \o Destinations(messages)
                /\ delivered' = delivered \o SentBufs(res.calls)

socket_recv_messages ==
  /\ pc = "open"
  /\ \E n_recv_messages \in RecvCounts :
       \E in \in (IF handshaken THEN CallerRecvInputs(n_recv_messages)
                  ELSE LocalRecvInputs(Len(send_queue))) :
         LET res == RecvResult(handshaken, base_socket, send_queue, n_recv_messages, in)
         IN  /\ Commit("recv", << >>, n_recv_messages, res)
             /\ delivered' = delivered \o SentBufs(res.calls)
  /\ pc' = "open"
  /\ UNCHANGED << submitted, destinations >>

socket_close ==
  /\ pc = "open"
  /\ LET res == CloseResult(handshaken, base_socket, send_queue)
     IN  /\ Commit("close", << >>, 0, res)
         /\ delivered' = delivered \o SentBufs(res.calls)
  /\ pc' = "closed"
  /\ UNCHANGED << submitted, destinations >>

Next ==
  \/ nice_pseudossl_socket_new
  \/ socket_send_messages
  \/ socket_recv_messages
  \/ socket_close

Spec == Init /\ [][Next]_vars

----------------------------------------------------------------------------
(* Properties *)

NotHandshakenSend == call.op = "send" /\ ~call.pre.handshaken
NotHandshakenRecv == call.op = "recv" /\ ~call.pre.handshaken
Recognised == NotHandshakenRecv /\ handshaken
Poisoned(st) == ~st.handshaken /\ st.base_socket = NULL

\* What the base socket delivered to the receive of the last operation.
BaseRecv == call.calls[1]
BaseGavePattern ==
  /\ NotHandshakenRecv /\ call.pre.base_socket # NULL
  /\ BaseRecv.ret = 1 /\ BaseRecv.out = << SSL_SERVER_HANDSHAKE >>
BaseGaveOtherRecord ==
  /\ NotHandshakenRecv /\ call.pre.base_socket # NULL
  /\ BaseRecv.ret = 1 /\ BaseRecv.out # << SSL_SERVER_HANDSHAKE >>

\* C1: the receive that recognises the server handshake makes one
\* nice_socket_send per queued message, and the buffers it sends are exactly
\* the payloads submitted while not handshaken, in submission order, each once;
\* before that receive none of them is sent, and after it none is sent again.
C1_FlushDeliversSubmitted ==
  /\ pc # "new" /\ ~handshaken => delivered = << >>
  /\ handshaken => delivered = submitted
  /\ Recognised =>
       /\ SentBufs(call.calls) = submitted
       /\ NumSends(call.calls) = Len(call.pre.send_queue)
       /\ Len(submitted) = Len(call.pre.send_queue)

C1_Witness ==
  /\ Recognised
  /\ Len(submitted) = 3
  /\ submitted[1] = << 1, 2, 3 >> /\ submitted[2] = << 4 >> /\ submitted[3] = << 5, 6 >>
  /\ delivered = submitted

\* C2: a send made while not handshaken makes no call on the base socket, so
\* that nothing but the client pattern has been sent while not handshaken; it
\* appends one entry per message, in message order, behind the entries already
\* queued; and the value it returns is TRUE. (A message whose ranges total
\* less than its declared length stops the call in g_assert_cmpuint, after
\* its entry was appended: such a call returns nothing.)
C2_SendOnlyQueues ==
  /\ pc # "new" /\ ~handshaken => delivered = << >> /\ n_client = 1
  /\ NotHandshakenSend =>
       /\ call.calls = << >>
       /\ LET old == Len(call.pre.send_queue)
          IN  /\ SubSeq(send_queue, 1, old) = call.pre.send_queue
              /\ \A i \in 1..(Len(send_queue) - old) :
                   /\ send_queue[old + i].length = call.messages[i].length
                   /\ call.returned => send_queue[old + i].buf = Payload(call.messages[i])
              /\ call.returned =>
                   /\ call.ret = TRUE_
                   /\ Len(send_queue) = old + call.n
              /\ ~call.returned => Len(send_queue) \in (old + 1)..(old + call.n)

C2_Witness ==
  /\ NotHandshakenSend /\ call.returned /\ call.ret = TRUE_
  /\ call.n = 2 /\ Len(call.pre.send_queue) = 1 /\ Len(send_queue) = 3
  /\ call.pre.base_socket # NULL

\* C3: when the base socket delivers one record that is the server pattern to
\* a receive made while not handshaken, the decorator is handshaken after the
\* call, the call returns 0 and it delivers nothing to the caller.
C3_PatternHandshakes ==
  BaseGavePattern => handshaken /\ call.ret = 0 /\ call.out = << >> /\ call.returned

C3_Witness == BaseGavePattern /\ handshaken /\ call.ret = 0

\* C4: when the base socket delivers one record that differs from the server
\* pattern in length or in bytes to a receive made while not handshaken, the
\* base socket is freed and marked absent and the call returns a negative
\* value; and a decorator whose base socket is absent is never handshaken.
C4_MismatchPoisons ==
  /\ BaseGaveOtherRecord =>
       /\ base_socket = NULL /\ n_free = 1 /\ call.ret < 0 /\ ~handshaken
  /\ base_socket = NULL => ~handshaken

\* C5, as claimed: a receive made while not handshaken with the base socket
\* absent returns 0.
C5_PoisonedRecvReturnsZero ==
  NotHandshakenRecv /\ call.pre.base_socket = NULL => call.ret = 0

\* C5, amended: a receive made while not handshaken with the base socket
\* absent returns -1, makes no call on the base socket and changes nothing.
C5_PoisonedRecvReturnsMinusOne ==
  NotHandshakenRecv /\ call.pre.base_socket = NULL =>
    /\ call.ret = -1
    /\ call.calls = << >> /\ call.out = << >>
    /\ ~handshaken /\ base_socket = NULL /\ send_queue = call.pre.send_queue

C5_Witness ==
  /\ NotHandshakenRecv /\ call.pre.base_socket = NULL /\ n_free = 1
  /\ call.ret = -1 /\ Len(send_queue) > 0

\* C6, as claimed: a send made after a handshake mismatch freed the base
\* socket, the decorator still not handshaken, reports failure.
C6_PoisonedSendFails ==
  NotHandshakenSend /\ call.pre.base_socket = NULL /\ call.returned =>
    call.ret = FALSE_

\* C6, amended: a send made after a handshake mismatch freed the base socket,
\* the decorator still not handshaken, returns TRUE; it queues its messages
\* and makes no call on the base socket.
C6_PoisonedSendSucceeds ==
  NotHandshakenSend /\ call.pre.base_socket = NULL /\ call.returned =>
    /\ call.ret = TRUE_
    /\ call.calls = << >>
    /\ Len(send_queue) = Len(call.pre.send_queue) + call.n
    /\ base_socket = NULL /\ ~handshaken

C6_Witness ==
  /\ NotHandshakenSend /\ call.pre.base_socket = NULL /\ call.returned
  /\ n_free = 1 /\ call.n = 2 /\ call.ret = TRUE_

\* C7: a send or a receive made while handshaken makes exactly one call on
\* the base socket, the operation of the same kind with the caller's
\* arguments; it returns what that call returned, the caller's buffers hold
\* what that call delivered, and the decorator's state and queue do not change.
C7_PassThrough ==
  call.op \in { "send", "recv" } /\ call.pre.handshaken =>
    /\ Len(call.calls) = 1
    /\ call.returned /\ call.ret = call.calls[1].ret
    /\ call.calls[1].n = call.n
    /\ call.op = "send" =>
         /\ call.calls[1].fn = "nice_socket_send_messages"
         /\ call.calls[1].messages = call.messages
    /\ call.op = "recv" =>
         /\ call.calls[1].fn = "nice_socket_recv_messages"
         /\ call.calls[1].into = "recv_messages"
         /\ call.out = call.calls[1].out
    /\ handshaken /\ base_socket = call.pre.base_socket
    /\ send_queue = << >> /\ heap = 0

C7_Witness ==
  /\ call.op = "send" /\ call.pre.handshaken
  /\ call.n = 2 /\ call.ret = 1 /\ Len(submitted) > 0

\* C8: when close has returned, the base socket has been freed exactly once
\* in all, no queue entry is left allocated, and close made no send on the
\* base socket.
C8_CloseReleasesOnce ==
  pc = "closed" =>
    /\ n_free = 1
    /\ heap = 0 /\ send_queue = << >>
    /\ NumSends(call.calls) = 0
    /\ delivered = (IF handshaken THEN submitted ELSE << >>)
    /\ call.returned

C8_Witness ==
  /\ pc = "closed" /\ call.op = "close"
  /\ Poisoned(call.pre) /\ Len(call.pre.send_queue) = 2
  /\ n_free = 1 /\ heap = 0

\* C9: the constructor makes exactly one call on the base socket, a send of
\* the client pattern with a NULL destination, and leaves the decorator not
\* handshaken with an empty queue; from then on the number of sends of the
\* client pattern made on the base socket stays one.
C9_OneClientHandshake ==
  /\ pc # "new" => n_client = 1
  /\ call.op = "new" =>
       /\ Len(call.calls) = 1
       /\ call.calls[1].fn = "nice_socket_send"
       /\ call.calls[1].to = NULL
       /\ call.calls[1].buf = SSL_CLIENT_HANDSHAKE
       /\ call.calls[1].len = Len(SSL_CLIENT_HANDSHAKE)
       /\ ~handshaken /\ send_queue = << >> /\ base_socket # NULL
  /\ call.op # "new" => \A i \in 1..Len(call.calls) : ~IsClientHandshakeSend(call.calls[i])

C9_Witness ==
  /\ pc = "closed" /\ handshaken /\ Len(delivered) = 2 /\ n_client = 1

\* C10: when the base socket answers a value <= 0 to a receive made while not
\* handshaken with the base socket present, the receive returns that value
\* and the decorator is still not handshaken, the base socket is still
\* present and not freed, and the queue is the same.
C10_NoRecordChangesNothing ==
  /\ NotHandshakenRecv /\ call.pre.base_socket # NULL /\ BaseRecv.ret <= 0 =>
       /\ call.ret = BaseRecv.ret /\ call.returned
       /\ Len(call.calls) = 1
       /\ ~handshaken
       /\ base_socket = call.pre.base_socket /\ n_free = 0
       /\ send_queue = call.pre.send_queue /\ heap = Len(send_queue)
       /\ call.out = << >>

C10_Witness ==
  /\ NotHandshakenRecv /\ call.pre.base_socket # NULL
  /\ BaseRecv.ret = -2 /\ call.ret = -2
  /\ Len(send_queue) = 2 /\ base_socket # NULL

\* The entries appended by the last operation, a send made while not handshaken.
Appended == SubSeq(send_queue, Len(call.pre.send_queue) + 1, Len(send_queue))

\* C11: every entry that a send made while not handshaken appended for a
\* message whose ranges total at least its declared length L holds one buffer
\* of L bytes, the first L bytes of the concatenation of the ranges in order:
\* the whole concatenation when they total L, and no byte beyond L when they
\* total more.
C11_CompactedBuffer ==
  NotHandshakenSend =>
    \A i \in 1..Len(Appended) :
      LET message == call.messages[i]
          all     == Concat(Ranges(message))
      IN  Len(all) >= message.length =>
            /\ Appended[i].length = message.length
            /\ Len(Appended[i].buf) = message.length
            /\ Appended[i].buf = SubSeq(all, 1, message.length)
            /\ Len(all) = message.length => Appended[i].buf = all

C11_Witness ==
  /\ NotHandshakenSend /\ call.returned
  /\ call.messages = << MsgOverlong, MsgScattered >>
  /\ Appended[1].buf = << 5, 6 >> /\ Appended[2].buf = << 1, 2, 3 >>

\* C12, as claimed: once the base socket has failed a receive made while not
\* handshaken, the decorator is never handshaken.
C12_FailedRecvIsTerminal == recv_failed => ~handshaken

\* C12, amended: a negative result of the base socket's receive while not
\* handshaken is returned and leaves the base socket present and not freed,
\* and it is not terminal: a later receive to which the base socket delivers
\* the server pattern makes the decorator handshaken and returns 0.
C12_FailedRecvIsNotTerminal ==
  /\ NotHandshakenRecv /\ call.pre.base_socket # NULL /\ BaseRecv.ret < 0 =>
       /\ recv_failed /\ call.ret = BaseRecv.ret
       /\ base_socket # NULL /\ n_free = 0 /\ ~handshaken
  /\ recv_failed /\ BaseGavePattern => handshaken /\ call.ret = 0

C12_Witness == recv_failed /\ BaseGavePattern /\ handshaken /\ n_free = 0

FlushSends == SubSeq(call.calls, 2, Len(call.calls))

\* C14: when the queue is flushed, the i-th entry is sent to the destination
\* of the i-th message submitted: its address when it had one, and NULL (no
\* destination) when it had none.
C14_FlushKeepsDestination ==
  Recognised =>
    /\ Len(FlushSends) = Len(destinations)
    /\ \A i \in 1..Len(FlushSends) : FlushSends[i].to = destinations[i]

\* C15: a send or a receive of the decorator makes each call on the base
\* socket once (one receive or one send_messages, and one send per queued
\* entry when it flushes), and whenever one of those calls reports a failure
\* (a negative result) the decorator's call returns a failure.
C15_FailuresSurface ==
  call.op \in { "send", "recv" } =>
    /\ Len(call.calls) - NumFrees(call.calls)
         <= 1 + (IF Recognised THEN Len(call.pre.send_queue) ELSE 0)
    /\ (\E i \in 1..Len(call.calls) :
          call.calls[i].fn # "nice_socket_free" /\ call.calls[i].ret < 0)
       => call.returned /\ call.ret < 0

\* C16: the constructor leaves the decorator not handshaken, and an operation
\* that starts handshaken ends handshaken, whatever the base socket answers.
C16_HandshakenIsMonotonic ==
  /\ pc = "new" \/ call.op = "new" => ~handshaken
  /\ call.pre.handshaken => handshaken

C16_Witness ==
  /\ call.op = "recv" /\ call.pre.handshaken /\ handshaken
  /\ call.ret = -2 /\ call.calls[1].ret = -2

\* C17: between operations the queue is non-empty only while not handshaken:
\* it is empty after the receive that recognised the handshake, and a send
\* made while handshaken appends nothing.
C17_QueueOnlyWhileNotHandshaken ==
  /\ handshaken => send_queue = << >> /\ heap = 0
  /\ Recognised => send_queue = << >>
  /\ call.op = "send" /\ call.pre.handshaken => send_queue = call.pre.send_queue

C17_Witness ==
  /\ Recognised /\ Len(call.pre.send_queue) = 3 /\ send_queue = << >>

\* C18: before close, a handshaken decorator has its base socket, which has
\* not been freed; an operation other than close frees the base socket only
\* when it starts not handshaken, and leaves the decorator not handshaken.
C18_HandshakenHasBase ==
  /\ pc = "open" /\ handshaken => base_socket # NULL /\ n_free = 0
  /\ call.op # "close" /\ NumFrees(call.calls) > 0 =>
       ~call.pre.handshaken /\ ~handshaken /\ base_socket = NULL

C18_Witness ==
  /\ pc = "open" /\ handshaken /\ base_socket # NULL
  /\ call.op = "recv" /\ call.pre.handshaken /\ call.ret = -1

\* C19: once a mismatch has freed the base socket, the pointer is NULL and the
\* decorator stays not handshaken; every later send, receive and close makes
\* no call on the base socket; a later send only extends the queue, a later
\* receive leaves it, and no queued payload is ever sent.
C19_NoUseAfterRelease ==
  /\ pc = "open" /\ n_free > 0 =>
       base_socket = NULL /\ ~handshaken /\ delivered = << >> /\ n_free = 1
  /\ call.op \in { "send", "recv", "close" } /\ call.pre.base_socket = NULL =>
       /\ call.calls = << >>
       /\ delivered = << >> /\ ~handshaken /\ n_free = 1
       /\ call.op = "send" =>
            /\ Len(send_queue) >= Len(call.pre.send_queue)
            /\ SubSeq(send_queue, 1, Len(call.pre.send_queue)) = call.pre.send_queue
       /\ call.op = "recv" => send_queue = call.pre.send_queue

C19_Witness ==
  /\ call.op = "send" /\ call.pre.base_socket = NULL /\ n_free = 1
  /\ Len(call.pre.send_queue) = 1 /\ Len(send_queue) = 3 /\ delivered = << >>

\* C20: a send of n messages made while not handshaken that returns, returns
\* 1 (TRUE) whatever n is, n = 0 and n = 2 included, and has appended exactly
\* n entries; so the value returned is the number of messages only for n = 1.
C20_SendReturnsTrueNotCount ==
  NotHandshakenSend /\ call.returned =>
    /\ call.ret = 1
    /\ Len(Appended) = call.n
    /\ call.ret = call.n <=> call.n = 1

C20_Witness ==
  /\ NotHandshakenSend /\ call.returned /\ call.n = 0 /\ call.ret = 1
  /\ send_queue = call.pre.send_queue /\ Len(send_queue) = 2

====
